---- MODULE Spec2Model ----
(***************************************************************************)
(* Red-black tree of src/src/rb_tree.rs.                                   *)
(*                                                                         *)
(* The node graph is a heap: a function from node pointers to Node         *)
(* structs whose domain is the set of allocated, not yet freed nodes.      *)
(* A tree value `t` handed through the operators is the record             *)
(*   [root, nodes, rot, err, dbg, log, freed, made, calls, after, fix,     *)
(*    start]                                                               *)
(* root/nodes are RBTree.root and the heap; rot counts the calls of rotate *)
(* made by the running public call, err is the message of the panic that   *)
(* aborted it ("" when none), dbg is TRUE once a debug_assert of the call  *)
(* has failed, log lists the branches the call has taken, freed the        *)
(* pointers it has released and made the nodes it has boxed, each as       *)
(* [ptr, node] with the fields the node had when Box::into_raw took it.    *)
(* calls lists the rotate2 calls of the running call as [node, dir], after *)
(* the heap each of them has left; fix                                     *)
(* lists, for every pass of balance that gets past the Red-uncle test, the *)
(* locals [n, p, g, node_dir, parent_dir] and the heap at that point.      *)
(* start holds, once the call has reached the loop of balance or of        *)
(* delete_black_leaf, [loop, n, t]: the loop, the node it starts from and  *)
(* the tree value on entry.                                                *)
(***************************************************************************)
EXTENDS Integers, Sequences, FiniteSets, TLC

\* ---------------------------------------------------------------- bounds
MaxKey == 8
MaxNodes == 127
KVMaxKey == 4
MaxVal == 1
RotNodes == 4

Keys == 1..MaxKey
KVKeys == 1..KVMaxKey
Vals == 0..MaxVal
Ptrs == 1..MaxNodes

\* ------------------------------------------------------- Option encodings
\* Option<NonNull<Node<T>>>::None
None == 0
\* Option<(NonNull<Node<T>>, Dir)>::None
NoParent == <<None, "None">>
\* Option<T>::None as returned by insert and delete
NoElem == [key |-> 0, val |-> 0]

Elem(k, v) == [key |-> k, val |-> v]

\* T: Ord.  The element type orders by its key alone, so two elements with
\* the same key and different payloads compare Equal.
cmp(a, b) == IF a.key < b.key THEN "Less" ELSE IF a.key > b.key THEN "Greater" ELSE "Equal"

\* Node::new that ignores the colour asked for.
Node_new_red(value, color) ==
    [color |-> "Red", value |-> value, left |-> None, right |-> None, parent |-> NoParent]

Node_new(value, color) ==
    [color |-> color, value |-> value, left |-> None, right |-> None, parent |-> NoParent]

colorof(ns, node) == IF node = None THEN "Black" ELSE ns[node].color

other(dir) == IF dir = "Left" THEN "Right" ELSE "Left"

childof(node, dir) == IF dir = "Left" THEN node.left ELSE node.right

\* parent.left = c / parent.right = c
SetChild(ns, p, dir, c) ==
    IF dir = "Left" THEN [ns EXCEPT ![p].left = c] ELSE [ns EXCEPT ![p].right = c]

\* Box::into_raw(Box::new(..)): an address no live node has.  The program
\* never compares or orders addresses, so the lowest free one stands for all.
Alloc(ns) == CHOOSE p \in Ptrs \ DOMAIN ns : \A q \in Ptrs \ DOMAIN ns : p <= q

\* Box::from_raw(node) dropped: the node leaves the heap.
Free(ns, p) == [q \in DOMAIN ns \ {p} |-> ns[q]]

RBTree_new ==
    [root |-> None, nodes |-> <<>>, rot |-> 0, err |-> "", dbg |-> FALSE, log |-> <<>>,
     freed |-> <<>>, made |-> <<>>, calls |-> <<>>, after |-> <<>>, fix |-> <<>>,
     start |-> <<>>]

Panic(t, msg) == [t EXCEPT !.err = msg]
DebugAssert(t, cond) == IF cond THEN t ELSE [t EXCEPT !.dbg = TRUE]
Log(t, what) == [t EXCEPT !.log = Append(@, what)]
\* The call enters `loop` with N = n.
Enter(t, loop, n) == [t EXCEPT !.start = <<[loop |-> loop, n |-> n, t |-> t]>>]

\* node.parent.expect("parent node must exist") at the head of sibling.
sibling_expect(t, node) ==
    IF t.nodes[node].parent = NoParent THEN Panic(t, "parent node must exist") ELSE t

\* sibling(node): (S, C, D) = the sibling, its child nearer to node, its
\* child farther from node; all None when the sibling is absent.
sibling(ns, node) ==
    LET parent_ptr == ns[node].parent[1]
        dir == ns[node].parent[2]
        s == childof(ns[parent_ptr], other(dir))
    IN  IF s = None THEN <<None, None, None>>
        ELSE IF other(dir) = "Left" THEN <<s, ns[s].right, ns[s].left>>
        ELSE <<s, ns[s].left, ns[s].right>>

\* rotate that leaves the back-reference of the handed-over subtree alone.
rotate_stale_inner(ns, node_ptr, dir) ==
    LET up == childof(ns[node_ptr], other(dir))
        old_parent == ns[node_ptr].parent
        Demote(n0) == [n0 EXCEPT ![node_ptr].parent = <<up, dir>>]
        Promote(n1) ==
            [(IF old_parent # NoParent
              THEN SetChild(n1, old_parent[1], old_parent[2], up)
              ELSE n1) EXCEPT ![up].parent = old_parent]
        Relink(n3, inner) ==
            SetChild(SetChild(n3, node_ptr, other(dir), inner), up, dir, node_ptr)
        HandOver(n3) == Relink(n3, childof(n3[up], dir))
    IN  IF up = None
        THEN [nodes |-> ns, ret |-> None, err |-> "child must exist"]
        ELSE [nodes |-> HandOver(Promote(Demote(ns))), ret |-> up, err |-> ""]

\* rotate that writes node.parent before it looks for the child to promote.
rotate_late_expect(ns, node_ptr, dir) ==
    LET up == childof(ns[node_ptr], other(dir))
        old_parent == ns[node_ptr].parent
        Demote(n0) == [n0 EXCEPT ![node_ptr].parent = <<up, dir>>]
        Promote(n1) ==
            [(IF old_parent # NoParent
              THEN SetChild(n1, old_parent[1], old_parent[2], up)
              ELSE n1) EXCEPT ![up].parent = old_parent]
        Relink(n3, inner) ==
            SetChild(SetChild(IF inner # None
                              THEN [n3 EXCEPT ![inner].parent = <<node_ptr, other(dir)>>]
                              ELSE n3,
                              node_ptr, other(dir), inner),
                     up, dir, node_ptr)
        HandOver(n3) == Relink(n3, childof(n3[up], dir))
    IN  IF up = None
        THEN [nodes |-> Demote(ns), ret |-> None, err |-> "child must exist"]
        ELSE [nodes |-> HandOver(Promote(Demote(ns))), ret |-> up, err |-> ""]

\* rotate(node_ptr, dir): the child opposite dir is promoted.  The result is
\* [nodes, ret, err]; the heap is untouched when the expect fails.  The
\* assignments are applied in the order of the source: Demote, Promote,
\* HandOver.
rotate(ns, node_ptr, dir) ==
    LET up == childof(ns[node_ptr], other(dir))
        old_parent == ns[node_ptr].parent
        \* node.parent.replace((up, dir))
        Demote(n0) == [n0 EXCEPT ![node_ptr].parent = <<up, dir>>]
        \* the old parent's slot and up.parent
        Promote(n1) ==
            [(IF old_parent # NoParent
              THEN SetChild(n1, old_parent[1], old_parent[2], up)
              ELSE n1) EXCEPT ![up].parent = old_parent]
        \* up's inner subtree goes to node, node becomes up's child
        Relink(n3, inner) ==
            SetChild(SetChild(IF inner # None
                              THEN [n3 EXCEPT ![inner].parent = <<node_ptr, other(dir)>>]
                              ELSE n3,
                              node_ptr, other(dir), inner),
                     up, dir, node_ptr)
        HandOver(n3) == Relink(n3, childof(n3[up], dir))
    IN  IF up = None
        THEN [nodes |-> ns, ret |-> None,
              err |-> IF dir = "Left" THEN "rorate left: right child must exist"
                      ELSE "rorate right: left child must exist"]
        ELSE [nodes |-> HandOver(Promote(Demote(ns))), ret |-> up, err |-> ""]

\* rotate2 that also exchanges the colours of the two nodes it turns.
rotate2_recolour(t, node_ptr, dir) ==
    LET is_root == t.nodes[node_ptr].parent = NoParent
        Rotated(r) ==
            IF r.err # "" THEN Panic([t EXCEPT !.nodes = r.nodes], r.err)
            ELSE [t EXCEPT !.nodes = [r.nodes EXCEPT
                                         ![node_ptr].color = t.nodes[r.ret].color,
                                         ![r.ret].color = t.nodes[node_ptr].color],
                           !.root = IF is_root THEN r.ret ELSE @,
                           !.rot = @ + 1]
    IN  IF t.err # "" THEN t ELSE Rotated(rotate(t.nodes, node_ptr, dir))

rotate2(t, node_ptr, dir) ==
    LET is_root == t.nodes[node_ptr].parent = NoParent
        Rotated(r) ==
            IF r.err # "" THEN Panic([t EXCEPT !.nodes = r.nodes], r.err)
            ELSE [t EXCEPT !.nodes = r.nodes,
                           !.root = IF is_root THEN r.ret ELSE @,
                           !.rot = @ + 1,
                           !.calls = Append(@, [node |-> node_ptr, dir |-> dir]),
                           !.after = Append(@, r.nodes)]
    IN  IF t.err # "" THEN t ELSE Rotated(rotate(t.nodes, node_ptr, dir))

SetColor(t, p, c) == IF t.err # "" THEN t ELSE [t EXCEPT !.nodes[p].color = c]

\* balance that returns at once: the new Red node stays where it was attached.
balance_none(t, node) == t

\* balance without `parent = node` after the first rotation of a bent pair.
RECURSIVE balance_keepP(_, _)
balance_keepP(t, node) ==
    IF t.nodes[node].parent = NoParent THEN t ELSE
    LET parent_ptr == t.nodes[node].parent[1]
        node_dir == t.nodes[node].parent[2]
    IN  IF t.nodes[parent_ptr].color = "Black" THEN t
        ELSE IF t.nodes[parent_ptr].parent = NoParent
        THEN SetColor(Log(t, "root-parent"), parent_ptr, "Black")
        ELSE
        LET grand_ptr == t.nodes[parent_ptr].parent[1]
            parent_dir == t.nodes[parent_ptr].parent[2]
            t0 == DebugAssert(t, t.nodes[grand_ptr].color = "Black")
            uncle_ptr == childof(t0.nodes[grand_ptr], other(parent_dir))
        IN  IF uncle_ptr # None /\ t0.nodes[uncle_ptr].color = "Red"
            THEN balance_keepP(SetColor(SetColor(SetColor(Log(t0, "uncle-red"),
                            uncle_ptr, "Black"), parent_ptr, "Black"), grand_ptr, "Red"),
                         grand_ptr)
            ELSE
            LET bent == node_dir # parent_dir
                tf == [t0 EXCEPT !.fix = Append(@, [n |-> node, p |-> parent_ptr,
                                                    g |-> grand_ptr, node_dir |-> node_dir,
                                                    parent_dir |-> parent_dir,
                                                    nodes |-> t0.nodes])]
                t1 == IF bent THEN rotate2(Log(tf, "bent"), parent_ptr, parent_dir) ELSE tf
                parent == parent_ptr
                t2 == rotate2(Log(t1, "straight"), grand_ptr, other(parent_dir))
            IN  SetColor(SetColor(t2, parent, "Black"), grand_ptr, "Red")

\* balance that leaves the new P Red after the rotations and goes round again.
RECURSIVE balance_again(_, _)
balance_again(t, node) ==
    IF t.nodes[node].parent = NoParent THEN t ELSE
    LET parent_ptr == t.nodes[node].parent[1]
        node_dir == t.nodes[node].parent[2]
    IN  IF t.nodes[parent_ptr].color = "Black" THEN t
        ELSE IF t.nodes[parent_ptr].parent = NoParent
        THEN SetColor(Log(t, "root-parent"), parent_ptr, "Black")
        ELSE
        LET grand_ptr == t.nodes[parent_ptr].parent[1]
            parent_dir == t.nodes[parent_ptr].parent[2]
            t0 == DebugAssert(t, t.nodes[grand_ptr].color = "Black")
            uncle_ptr == childof(t0.nodes[grand_ptr], other(parent_dir))
        IN  IF uncle_ptr # None /\ t0.nodes[uncle_ptr].color = "Red"
            THEN balance_again(SetColor(SetColor(SetColor(Log(t0, "uncle-red"),
                            uncle_ptr, "Black"), parent_ptr, "Black"), grand_ptr, "Red"),
                         grand_ptr)
            ELSE
            LET bent == node_dir # parent_dir
                tf == [t0 EXCEPT !.fix = Append(@, [n |-> node, p |-> parent_ptr,
                                                    g |-> grand_ptr, node_dir |-> node_dir,
                                                    parent_dir |-> parent_dir,
                                                    nodes |-> t0.nodes])]
                t1 == IF bent THEN rotate2(Log(tf, "bent"), parent_ptr, parent_dir) ELSE tf
                parent == IF bent THEN node ELSE parent_ptr
                t2 == rotate2(Log(t1, "straight"), grand_ptr, other(parent_dir))
            IN  IF t2.err # "" THEN t2
                ELSE balance_again(SetColor(t2, grand_ptr, "Red"), parent)

\* One pass of the body of the while loop of balance, N = node having a
\* parent.  The result is [t, next]: next is the N of the next pass, None
\* when the pass has returned.
balance_pass(t, node) ==
    LET parent_ptr == t.nodes[node].parent[1]
        node_dir == t.nodes[node].parent[2]
    IN  IF t.nodes[parent_ptr].color = "Black" THEN [t |-> t, next |-> None]
        ELSE IF t.nodes[parent_ptr].parent = NoParent
        THEN [t |-> SetColor(Log(t, "root-parent"), parent_ptr, "Black"), next |-> None]
        ELSE
        LET grand_ptr == t.nodes[parent_ptr].parent[1]
            parent_dir == t.nodes[parent_ptr].parent[2]
            t0 == DebugAssert(t, t.nodes[grand_ptr].color = "Black")
            uncle_ptr == childof(t0.nodes[grand_ptr], other(parent_dir))
        IN  IF uncle_ptr # None /\ t0.nodes[uncle_ptr].color = "Red"
            THEN [t |-> SetColor(SetColor(SetColor(Log(t0, "uncle-red"),
                            uncle_ptr, "Black"), parent_ptr, "Black"), grand_ptr, "Red"),
                  next |-> grand_ptr]
            ELSE
            LET bent == node_dir # parent_dir
                tf == [t0 EXCEPT !.fix = Append(@, [n |-> node, p |-> parent_ptr,
                                                    g |-> grand_ptr, node_dir |-> node_dir,
                                                    parent_dir |-> parent_dir,
                                                    nodes |-> t0.nodes])]
                t1 == IF bent THEN rotate2(Log(tf, "bent"), parent_ptr, parent_dir) ELSE tf
                parent == IF bent THEN node ELSE parent_ptr
                t2 == rotate2(Log(t1, "straight"), grand_ptr, other(parent_dir))
            IN  [t |-> SetColor(SetColor(t2, parent, "Black"), grand_ptr, "Red"),
                 next |-> None]

\* The while loop of balance, entered with N = node.
RECURSIVE balance(_, _)
balance(t, node) ==
    LET Again(x) == IF x.next = None THEN x.t ELSE balance(x.t, x.next)
    IN  IF t.nodes[node].parent = NoParent THEN t ELSE Again(balance_pass(t, node))

\* replace_value that hands back the element it was given, not the old one.
replace_value_echo(t, ptr, value) ==
    [t |-> [Log(t, "replace") EXCEPT !.nodes[ptr].value = value],
     ret |-> value]

\* replace_value that falls through to the fix-up instead of returning.
replace_value_fixup(t, ptr, value) ==
    [t |-> balance([Log(t, "replace") EXCEPT !.nodes[ptr].value = value], ptr),
     ret |-> t.nodes[ptr].value]

\* Some(std::mem::replace(&mut parent.value, value)); the result is [t, ret].
replace_value(t, ptr, value) ==
    [t |-> [Log(t, "replace") EXCEPT !.nodes[ptr].value = value],
     ret |-> t.nodes[ptr].value]

\* insert_at that hangs the new node under its parent without setting the
\* new node's own parent field.
RECURSIVE insert_at_orphan(_, _, _)
insert_at_orphan(t, parent_ptr, value) ==
    LET parent == t.nodes[parent_ptr]
        ord == cmp(value, parent.value)
    IN  IF ord = "Equal"
        THEN replace_value(t, parent_ptr, value)
        ELSE
        LET dir == IF ord = "Less" THEN "Left" ELSE "Right"
            next == childof(parent, dir)
        IN  IF next # None THEN insert_at_orphan(t, next, value)
            ELSE
            LET new_node_ptr == Alloc(t.nodes)
                new_node == Node_new(value, "Red")
                ns1 == (new_node_ptr :> new_node) @@ t.nodes
                ns2 == SetChild(ns1, parent_ptr, dir, new_node_ptr)
            IN  [t |-> balance(Enter([Log(t, "attach") EXCEPT
                                         !.nodes = ns2,
                                         !.made = Append(@, [ptr |-> new_node_ptr,
                                                             node |-> new_node])],
                                     "balance", new_node_ptr),
                               new_node_ptr),
                 ret |-> NoElem]

\* The descent of insert from parent_ptr; the result is [t, ret].
RECURSIVE insert_at(_, _, _)
insert_at(t, parent_ptr, value) ==
    LET parent == t.nodes[parent_ptr]
        ord == cmp(value, parent.value)
    IN  IF ord = "Equal"
        THEN replace_value(t, parent_ptr, value)
        ELSE
        LET dir == IF ord = "Less" THEN "Left" ELSE "Right"
            next == childof(parent, dir)
        IN  IF next # None THEN insert_at(t, next, value)
            ELSE
            LET new_node_ptr == Alloc(t.nodes)
                new_node == [Node_new(value, "Red") EXCEPT !.parent = <<parent_ptr, dir>>]
                ns1 == (new_node_ptr :> new_node) @@ t.nodes
                ns2 == SetChild(ns1, parent_ptr, dir, new_node_ptr)
            IN  [t |-> balance(Enter([Log(t, "attach") EXCEPT
                                         !.nodes = ns2,
                                         !.made = Append(@, [ptr |-> new_node_ptr,
                                                             node |-> new_node])],
                                     "balance", new_node_ptr),
                               new_node_ptr),
                 ret |-> NoElem]

insert(t, value) ==
    IF t.root = None
    THEN LET ptr == Alloc(t.nodes)
         IN  [t |-> [Log(t, "first") EXCEPT
                        !.nodes = (ptr :> Node_new(value, "Black")) @@ @,
                        !.root = ptr,
                        !.made = Append(@, [ptr |-> ptr,
                                            node |-> Node_new(value, "Black")])],
              ret |-> NoElem]
    ELSE insert_at(t, t.root, value)

\* replace_child that leaves the back-reference of the new node as it was.
replace_child_stale(t, node, new) ==
    IF t.err # "" THEN t ELSE
    LET par == t.nodes[node].parent
    IN  IF par = NoParent
        THEN [t EXCEPT !.root = new]
        ELSE [t EXCEPT !.nodes = SetChild(t.nodes, par[1], par[2], new)]

replace_child(t, node, new) ==
    IF t.err # "" THEN t ELSE
    LET par == t.nodes[node].parent
    IN  IF par = NoParent
        THEN [t EXCEPT !.root = new,
                       !.nodes = IF new # None THEN [@ EXCEPT ![new].parent = NoParent] ELSE @]
        ELSE LET ns1 == SetChild(t.nodes, par[1], par[2], new)
             IN  [t EXCEPT !.nodes = IF new # None THEN [ns1 EXCEPT ![new].parent = par]
                                     ELSE ns1]

\* find_node that stops at the last node visited when the key is absent.
RECURSIVE find_node_nearest(_, _, _)
find_node_nearest(ns, curr_ptr, value) ==
    IF curr_ptr = None THEN None
    ELSE LET ord == cmp(value, ns[curr_ptr].value)
             next == IF ord = "Less" THEN ns[curr_ptr].left ELSE ns[curr_ptr].right
         IN  IF ord = "Equal" \/ next = None THEN curr_ptr
             ELSE find_node_nearest(ns, next, value)

\* The descent of delete (the while loop over curr_ptr).
RECURSIVE find_node(_, _, _)
find_node(ns, curr_ptr, value) ==
    IF curr_ptr = None THEN None
    ELSE LET ord == cmp(value, ns[curr_ptr].value)
         IN  IF ord = "Less" THEN find_node(ns, ns[curr_ptr].left, value)
             ELSE IF ord = "Greater" THEN find_node(ns, ns[curr_ptr].right, value)
             ELSE curr_ptr

\* The successor loop of delete: the leftmost node below succ_ptr.
RECURSIVE leftmost(_, _)
leftmost(ns, succ_ptr) ==
    IF ns[succ_ptr].left = None THEN succ_ptr ELSE leftmost(ns, ns[succ_ptr].left)

\* successor that walks the left subtree: the smallest key below, not the next.
successor_left(ns, node) == leftmost(ns, ns[node].left)

\* successor that takes the right child itself, without going down to the left.
successor_child(ns, node) == ns[node].right

\* The in-order successor of a node with two children.
successor(ns, node) == leftmost(ns, ns[node].right)

\* swap_values that only copies the successor's element up.
swap_values_copy(t, node, succ) ==
    [t EXCEPT !.nodes[node].value = t.nodes[succ].value]

\* swap_values that does nothing.
swap_values_skip(t, node, succ) == t

\* std::mem::swap(&mut node.value, &mut succ.value)
swap_values(t, node, succ) ==
    [t EXCEPT !.nodes[node].value = t.nodes[succ].value,
              !.nodes[succ].value = t.nodes[node].value]

\* TakeBox that reads the element and never releases the node.
TakeBox_leak(t, node) ==
    IF t.err # "" THEN [t |-> t, ret |-> NoElem]
    ELSE [t |-> [t EXCEPT !.freed = Append(@, node)], ret |-> t.nodes[node].value]

\* Some(Box::from_raw(node).value): the node is released, its element returned.
TakeBox(t, node) ==
    IF t.err # "" THEN [t |-> t, ret |-> NoElem]
    ELSE [t |-> [t EXCEPT !.nodes = Free(@, node), !.freed = Append(@, node)],
          ret |-> t.nodes[node].value]

\* `value` of Option::unwrap on s, c or d: a panic when it is None.
Unwrap(t, ptr) == IF t.err = "" /\ ptr = None THEN Panic(t, "unwrap on None") ELSE t

\* SRed without `s = c`: the locals still name the old sibling.
SRed_keepS(t, p, dir, s, c, d) ==
    IF t.err # "" THEN [t |-> t, s |-> s, c |-> c, d |-> d] ELSE
    LET a0 == DebugAssert(DebugAssert(DebugAssert(Log(t, "D3"),
                  colorof(t.nodes, c) = "Black"),
                  colorof(t.nodes, d) = "Black"),
                  colorof(t.nodes, p) = "Black")
        a1 == rotate2(a0, p, dir)
        a2 == SetColor(a1, p, "Red")
        a3 == SetColor(a2, s, "Black")
    IN  IF colorof(t.nodes, s) # "Red" THEN [t |-> t, s |-> s, c |-> c, d |-> d]
        ELSE [t |-> Unwrap(a3, c), s |-> s, c |-> c, d |-> d]

\* SRed that makes its rotation twice over.
SRed_twice(t, p, dir, s, c, d) ==
    IF t.err # "" THEN [t |-> t, s |-> s, c |-> c, d |-> d] ELSE
    LET a0 == DebugAssert(DebugAssert(DebugAssert(Log(t, "D3"),
                  colorof(t.nodes, c) = "Black"),
                  colorof(t.nodes, d) = "Black"),
                  colorof(t.nodes, p) = "Black")
        a1 == rotate2(rotate2(a0, p, dir), p, dir)
        a2 == SetColor(a1, p, "Red")
        a3 == SetColor(a2, s, "Black")
        Update(a4) ==
            IF a4.err # "" THEN [t |-> a4, s |-> c, c |-> c, d |-> d]
            ELSE [t |-> a4, s |-> c,
                  c |-> childof(a4.nodes[c], dir),
                  d |-> childof(a4.nodes[c], other(dir))]
    IN  IF colorof(t.nodes, s) # "Red" THEN [t |-> t, s |-> s, c |-> c, d |-> d]
        ELSE Update(Unwrap(a3, c))

\* One pass of the loop body of delete_black_leaf is SRed, then CRed, then
\* the three closing cases.  x = [t, s, c, d] carries the locals.
SRed(t, p, dir, s, c, d) ==
    IF t.err # "" THEN [t |-> t, s |-> s, c |-> c, d |-> d] ELSE
    LET a0 == DebugAssert(DebugAssert(DebugAssert(Log(t, "D3"),
                  colorof(t.nodes, c) = "Black"),
                  colorof(t.nodes, d) = "Black"),
                  colorof(t.nodes, p) = "Black")
        a1 == rotate2(a0, p, dir)
        a2 == SetColor(a1, p, "Red")
        a3 == SetColor(a2, s, "Black")
        \* s = c; (c, d) = the children of the new s
        Update(a4) ==
            IF a4.err # "" THEN [t |-> a4, s |-> c, c |-> c, d |-> d]
            ELSE [t |-> a4, s |-> c,
                  c |-> childof(a4.nodes[c], dir),
                  d |-> childof(a4.nodes[c], other(dir))]
    IN  IF colorof(t.nodes, s) # "Red" THEN [t |-> t, s |-> s, c |-> c, d |-> d]
        ELSE Update(Unwrap(a3, c))

\* CRed that rotates S toward N's side, where it should rotate it away.
CRed_toward(x, dir) ==
    IF x.t.err # "" \/ colorof(x.t.nodes, x.c) # "Red" THEN x
    ELSE
    LET a0 == Unwrap(Log(x.t, "D5"), x.s)
        a1 == rotate2(a0, x.s, dir)
        a2 == SetColor(a1, x.s, "Red")
        a3 == SetColor(a2, x.c, "Black")
    IN  [t |-> a3, s |-> x.c, c |-> x.c, d |-> x.s]

CRed(x, dir) ==
    IF x.t.err # "" \/ colorof(x.t.nodes, x.c) # "Red" THEN x
    ELSE
    LET a0 == Unwrap(Log(x.t, "D5"), x.s)
        a1 == rotate2(a0, x.s, other(dir))
        a2 == SetColor(a1, x.s, "Red")
        a3 == SetColor(a2, x.c, "Black")
    IN  [t |-> a3, s |-> x.c, c |-> x.c, d |-> x.s]

\* DRed with `d.color = Black` left out.
DRed_keepD(t, p, dir, s, d) ==
    LET Recolour(a1) == SetColor(SetColor(a1, s, colorof(a1.nodes, p)), p, "Black")
    IN  Recolour(Unwrap(rotate2(Log(t, "D6"), p, dir), s))

\* DRed with S painted Red where it should take the colour of P.
DRed_redS(t, p, dir, s, d) ==
    LET a1 == Unwrap(rotate2(Log(t, "D6"), p, dir), s)
        a2 == SetColor(a1, s, "Red")
        a3 == SetColor(a2, d, "Black")
    IN  SetColor(a3, p, "Black")

\* DRed that rotates P away from N, which lifts N itself over P.
DRed_away(t, p, dir, s, d) ==
    LET Recolour(a1) ==
            SetColor(SetColor(SetColor(a1, s, colorof(a1.nodes, p)), d, "Black"), p, "Black")
    IN  Recolour(Unwrap(rotate2(Log(t, "D6"), p, other(dir)), s))

\* Case D6, D is Red: the loop ends.
DRed(t, p, dir, s, d) ==
    LET Recolour(a1) ==
            SetColor(SetColor(SetColor(a1, s, colorof(a1.nodes, p)), d, "Black"), p, "Black")
    IN  Recolour(Unwrap(rotate2(Log(t, "D6"), p, dir), s))

\* PRed that paints P Black and leaves S as it is.
PRed_keepS(t, p, s) == Unwrap(SetColor(Log(t, "D4"), p, "Black"), s)

\* Case D4, P is Red and S, C, D are Black: the loop ends.
PRed(t, p, s) ==
    LET a1 == Unwrap(SetColor(Log(t, "D4"), p, "Black"), s)
    IN  SetColor(a1, s, "Red")

\* delete_black_leaf_pass whose all-Black case leaves out `n = p`.
delete_black_leaf_pass_stay(t, n) ==
    LET p == t.nodes[n].parent[1]
        dir == t.nodes[n].parent[2]
        Close(x) ==
            IF x.t.err # "" THEN [t |-> x.t, next |-> None]
            ELSE IF colorof(x.t.nodes, x.d) = "Red"
            THEN [t |-> DRed(x.t, p, dir, x.s, x.d), next |-> None]
            ELSE IF colorof(x.t.nodes, p) = "Red"
            THEN [t |-> PRed(x.t, p, x.s), next |-> None]
            ELSE [t |-> SetColor(Unwrap(Log(x.t, "D2"), x.s), x.s, "Red"), next |-> n]
        Cases(t1, scd) == Close(CRed(SRed(t1, p, dir, scd[1], scd[2], scd[3]), dir))
    IN  Cases(sibling_expect(t, n), sibling(t.nodes, n))

\* One pass of the body of the loop of delete_black_leaf, N = n having a
\* parent.  The result is [t, next]: next is the N of the next pass, None
\* when the pass has left the loop.
delete_black_leaf_pass(t, n) ==
    LET p == t.nodes[n].parent[1]
        dir == t.nodes[n].parent[2]
        \* the closing cases, from the locals x the first two left
        Close(x) ==
            IF x.t.err # "" THEN [t |-> x.t, next |-> None]
            ELSE IF colorof(x.t.nodes, x.d) = "Red"
            THEN [t |-> DRed(x.t, p, dir, x.s, x.d), next |-> None]
            ELSE IF colorof(x.t.nodes, p) = "Red"
            THEN [t |-> PRed(x.t, p, x.s), next |-> None]
            ELSE [t |-> SetColor(Unwrap(Log(x.t, "D2"), x.s), x.s, "Red"), next |-> p]
        Cases(t1, scd) == Close(CRed(SRed(t1, p, dir, scd[1], scd[2], scd[3]), dir))
    IN  Cases(sibling_expect(t, n), sibling(t.nodes, n))

\* while let Some((p, dir)) = n.parent { .. }
RECURSIVE delete_black_leaf_loop(_, _)
delete_black_leaf_loop(t, n) ==
    LET Again(x) == IF x.next = None THEN x.t ELSE delete_black_leaf_loop(x.t, x.next)
    IN  IF t.err # "" \/ t.nodes[n].parent = NoParent THEN t
        ELSE Again(delete_black_leaf_pass(t, n))

\* The tail of delete_black_leaf: the node is unlinked and released.
detach(t, delete_node) == TakeBox(replace_child(t, delete_node, None), delete_node)

delete_black_leaf(t, delete_node) ==
    detach(delete_black_leaf_loop(Enter(t, "delete_black_leaf", delete_node), delete_node),
           delete_node)

\* splice that unlinks the node without putting its child in its place.
splice_drop(t, node, child) ==
    LET a1 == SetColor(t, child, "Black")
    IN  TakeBox(replace_child(a1, node, None), node)

\* splice that puts the child in place without painting it Black.
splice_keepRed(t, node, child) ==
    LET a0 == DebugAssert(DebugAssert(t, t.nodes[node].color = "Black"),
                          t.nodes[child].color = "Red")
    IN  TakeBox(replace_child(a0, node, child), node)

\* The one-child arms of delete: child goes Black and takes node's place.
splice(t, node, child) ==
    LET a0 == DebugAssert(DebugAssert(t, t.nodes[node].color = "Black"),
                          t.nodes[child].color = "Red")
        a1 == SetColor(a0, child, "Black")
    IN  TakeBox(replace_child(a1, node, child), node)

\* delete_leaf that unlinks a Black leaf like a Red one, without rebalancing.
delete_leaf_plain(t, leaf_node) ==
    TakeBox(replace_child(Log(t, "plain-leaf"), leaf_node, None), leaf_node)

\* The tail of delete, from the leaf_node the match produced.
delete_leaf(t, leaf_node) ==
    IF t.nodes[leaf_node].color = "Red" \/ t.nodes[leaf_node].parent = NoParent
    THEN TakeBox(replace_child(Log(t, "plain-leaf"), leaf_node, None), leaf_node)
    ELSE delete_black_leaf(Log(t, "black-leaf"), leaf_node)

delete(t, value) ==
    LET \* the two-children arm, after the swap with the successor
        Swapped(a1, succ_ptr) ==
            IF a1.nodes[succ_ptr].right = None THEN delete_leaf(a1, succ_ptr)
            ELSE splice(Log(a1, "succ-right-child"), succ_ptr, a1.nodes[succ_ptr].right)
        TwoChildren(node, succ_ptr) ==
            Swapped(DebugAssert(swap_values(Log(t, "two-children"), node, succ_ptr),
                                t.nodes[succ_ptr].left = None),
                    succ_ptr)
        Found(node, l, r) ==
            IF l = None /\ r = None THEN delete_leaf(t, node)
            ELSE IF r = None THEN splice(Log(t, "left-child"), node, l)
            ELSE IF l = None THEN splice(Log(t, "right-child"), node, r)
            ELSE TwoChildren(node, successor(t.nodes, node))
        Located(node) ==
            IF node = None THEN [t |-> Log(t, "absent"), ret |-> NoElem]
            ELSE Found(node, t.nodes[node].left, t.nodes[node].right)
    IN  Located(find_node(t.nodes, t.root, value))

\* Node::depth with unwrap_or(0): an absent child counts for nothing.
RECURSIVE Node_depth_nil0(_, _)
Node_depth_nil0(ns, self) ==
    LET l == IF ns[self].left = None THEN [depth |-> 0, ok |-> TRUE]
             ELSE Node_depth_nil0(ns, ns[self].left)
        r == IF ns[self].right = None THEN [depth |-> 0, ok |-> TRUE]
             ELSE Node_depth_nil0(ns, ns[self].right)
    IN  [depth |-> IF ns[self].color = "Black" THEN l.depth + 1 ELSE l.depth,
         ok |-> l.ok /\ r.ok /\ l.depth = r.depth]

\* Node::depth that counts a node whatever its colour.
RECURSIVE Node_depth_any(_, _)
Node_depth_any(ns, self) ==
    LET l == IF ns[self].left = None THEN [depth |-> 1, ok |-> TRUE]
             ELSE Node_depth_any(ns, ns[self].left)
        r == IF ns[self].right = None THEN [depth |-> 1, ok |-> TRUE]
             ELSE Node_depth_any(ns, ns[self].right)
    IN  [depth |-> l.depth + 1, ok |-> l.ok /\ r.ok /\ l.depth = r.depth]

\* Node::depth and RBTree::depth.  [depth, ok]: ok is FALSE once the
\* debug_assert_eq!(left_depth, right_depth) of some node below has failed.
RECURSIVE Node_depth(_, _)
Node_depth(ns, self) ==
    LET l == IF ns[self].left = None THEN [depth |-> 1, ok |-> TRUE]
             ELSE Node_depth(ns, ns[self].left)
        r == IF ns[self].right = None THEN [depth |-> 1, ok |-> TRUE]
             ELSE Node_depth(ns, ns[self].right)
    IN  [depth |-> IF ns[self].color = "Black" THEN l.depth + 1 ELSE l.depth,
         ok |-> l.ok /\ r.ok /\ l.depth = r.depth]

depth(t) == IF t.root = None THEN 0 ELSE Node_depth(t.nodes, t.root).depth

\* ------------------------------------------------------------ observation
\* find(key): read-only lookup by binary-search descent from the root.  The
\* source file has no lookup of its own; this is the one the specification
\* describes, the element found or NoElem.
RECURSIVE find_at(_, _, _)
find_at(ns, curr_ptr, key) ==
    IF curr_ptr = None THEN NoElem
    ELSE IF key < ns[curr_ptr].value.key THEN find_at(ns, ns[curr_ptr].left, key)
    ELSE IF key > ns[curr_ptr].value.key THEN find_at(ns, ns[curr_ptr].right, key)
    ELSE ns[curr_ptr].value

find(t, key) == find_at(t.nodes, t.root, key)

\* The nodes reachable from p through child links (p included).
RECURSIVE Subtree(_, _)
Subtree(ns, p) ==
    IF p = None THEN {}
    ELSE {p} \cup Subtree(ns, ns[p].left) \cup Subtree(ns, ns[p].right)

\* The element with the given key held by a node reachable from the root,
\* wherever it sits, or NoElem.
Stored(t, key) ==
    LET at == {p \in Subtree(t.nodes, t.root) : t.nodes[p].value.key = key}
    IN  IF at = {} THEN NoElem ELSE t.nodes[CHOOSE p \in at : TRUE].value

\* In-order traversal of the elements below p.
RECURSIVE InOrder(_, _)
InOrder(ns, p) ==
    IF p = None THEN <<>>
    ELSE InOrder(ns, ns[p].left) \o <<ns[p].value>> \o InOrder(ns, ns[p].right)

\* The Black counts of all paths from p down to an absent child, p included.
RECURSIVE BlackCounts(_, _)
BlackCounts(ns, p) ==
    IF p = None THEN {0}
    ELSE LET own == IF ns[p].color = "Black" THEN 1 ELSE 0
         IN  {n + own : n \in BlackCounts(ns, ns[p].left) \cup BlackCounts(ns, ns[p].right)}

\* In-order traversal of the node pointers below p.
RECURSIVE InOrderPtrs(_, _)
InOrderPtrs(ns, p) ==
    IF p = None THEN <<>>
    ELSE InOrderPtrs(ns, ns[p].left) \o <<p>> \o InOrderPtrs(ns, ns[p].right)

\* Addresses are opaque to the program: it stores and follows them and never
\* compares, orders or prints them in insert, delete or depth.  Two heaps
\* that differ by a renaming of addresses are therefore the same program
\* state, and between public calls the state is kept under one name per
\* class: reachable nodes are named by their in-order rank, unreachable live
\* nodes (there are none unless a call leaks) follow in address order.
\* Every link is renamed with its target, so nothing about the shape, the
\* colours, the elements or the back-references is lost.
Rename(ns, root_ptr) ==
    LET seq == InOrderPtrs(ns, root_ptr)
        reach == {seq[i] : i \in 1..Len(seq)}
        rest == DOMAIN ns \ reach
    IN  [p \in DOMAIN ns \cup {None} |->
            IF p = None THEN None
            ELSE IF p \in reach THEN CHOOSE i \in 1..Len(seq) : seq[i] = p
            ELSE Len(seq) + Cardinality({q \in rest : q <= p})]

Canon(t) ==
    LET rho == Rename(t.nodes, t.root)
        to(p) == IF p \in DOMAIN rho THEN rho[p] ELSE p
        old(i) == CHOOSE p \in DOMAIN t.nodes : rho[p] = i
    IN  [t EXCEPT
           !.root = to(t.root),
           !.nodes = [i \in 1..Cardinality(DOMAIN t.nodes) |->
                        [t.nodes[old(i)] EXCEPT
                            !.left = to(@), !.right = to(@),
                            !.parent = <<to(@[1]), @[2]>>]]]

\* ---------------------------------------------------------- state machine
\* root, nodes: RBTree.root and the heap of Node structs.
\* last:      the public call made last, its argument, result and trace.
\* before:    the element stored under every key just before that call.
\* present:   the dictionary the calls so far denote (key -> element, or
\*            NoElem), kept apart from the tree.
\* roundtrip: TRUE when the last call was delete(k) and the call before it
\*            was an insert(k) that added k.
\* script:    the test the caller is running, [kind, n]; kind "none" when the
\*            caller makes any call it likes.
\* pc:        the number of calls of the script made so far.
\* loop:      where a call that is followed pass by pass through the loop of
\*            balance or of delete_black_leaf stands: [kind, n, start, depth,
\*            arg, passes, t] = the loop, its N, the node and the depth it
\*            started from, the argument of the call, the passes of the loop
\*            body made so far and the tree value with the trace of the call.
\*            kind "idle" between calls.
\* steps:     the number of steps the program has taken, counted where calls
\*            are followed pass by pass.
VARIABLES root, nodes, last, before, present, roundtrip, script, pc, loop, steps

vars == <<root, nodes, last, before, present, roundtrip, script, pc, loop, steps>>

Idle == [kind |-> "idle", n |-> None, start |-> None, depth |-> 0, arg |-> NoElem,
         passes |-> 0, t |-> RBTree_new]

\* The tree as the next public call finds it.
Tree == [RBTree_new EXCEPT !.root = root, !.nodes = nodes]

Snapshot(t, ks) == [k \in ks |-> Stored(t, k)]

Record(op, arg, r) ==
    [op |-> op, arg |-> arg, ret |-> r.ret, rot |-> r.t.rot, err |-> r.t.err,
     dbg |-> r.t.dbg, log |-> r.t.log, freed |-> r.t.freed]

Init ==
    /\ root = RBTree_new.root
    /\ nodes = RBTree_new.nodes
    /\ last = Record("new", NoElem, [t |-> RBTree_new, ret |-> NoElem])
    /\ before = [k \in Keys \cup KVKeys |-> NoElem]
    /\ present = [k \in Keys \cup KVKeys |-> NoElem]
    /\ roundtrip = FALSE
    /\ script = [kind |-> "none", n |-> 0]
    /\ pc = 0
    /\ loop = Idle
    /\ steps = 0

\* The call returns r = [t, ret]: the tree it leaves is the next state.
Store(c) == root' = c.root /\ nodes' = c.nodes
Return(op, arg, r) == Store(Canon(r.t)) /\ last' = Record(op, arg, r)

\* No call is made on a tree a panic has left half-updated.
CanCall == last.err = ""

\* t.insert(e).  An insert that adds a node needs a free address.
Insert(e) ==
    /\ CanCall
    /\ Stored(Tree, e.key) # NoElem \/ DOMAIN nodes # Ptrs
    /\ Return("insert", e, insert(Tree, e))
    /\ before' = Snapshot(Tree, DOMAIN before)
    /\ present' = [present EXCEPT ![e.key] = e]
    /\ roundtrip' = FALSE

\* t.delete(&e).
Delete(e) ==
    /\ CanCall
    /\ Return("delete", e, delete(Tree, e))
    /\ before' = Snapshot(Tree, DOMAIN before)
    /\ present' = [present EXCEPT ![e.key] = NoElem]
    /\ roundtrip' = (last.op = "insert" /\ last.ret = NoElem /\ last.arg.key = e.key)

\* RBTree<i32>-like use, as in the tests: the element is its own key.
AnyInsert(e) == Insert(e) /\ UNCHANGED <<script, pc, loop, steps>>
AnyDelete(e) == Delete(e) /\ UNCHANGED <<script, pc, loop, steps>>

Next == \E k \in Keys : AnyInsert(Elem(k, k)) \/ AnyDelete(Elem(k, k))

Spec == Init /\ [][Next]_vars

\* Elements with a payload the ordering ignores.
NextKV == \E k \in KVKeys : (\E v \in Vals : AnyInsert(Elem(k, v))) \/ AnyDelete(Elem(k, 0))

SpecKV == Init /\ [][NextKV]_vars

\* ------------------------------------------------------------ the tests
\* test_rb_tree_depth: for i in 2..15, the keys 1 .. 2^i - 1 are inserted
\* in ascending order, and again in descending order, into a new tree.
LastExp == 14
DepthSizes == {n \in 1..MaxNodes : \E i \in 2..LastExp : n = 2 ^ i - 1}

\* test_rb_tree_delete1: 1..8 are inserted, then 6, 8 and 1 deleted.
ExampleInserts == <<1, 2, 3, 4, 5, 6, 7, 8>>
ExampleDeletes == <<6, 8, 1>>

\* test_rb_tree_delete2, first half: 1..=n are inserted in ascending order
\* and then deleted in descending order, n the 1000 of the test scaled to
\* the sizes of the runs above.
Scripts ==
    {[kind |-> k, n |-> n] : k \in {"ascending", "descending", "drain"}, n \in DepthSizes}
        \cup {[kind |-> "example", n |-> Len(ExampleInserts)]}

ScriptLen(sc) ==
    IF sc.kind = "example" THEN Len(ExampleInserts) + Len(ExampleDeletes)
    ELSE IF sc.kind = "drain" THEN 2 * sc.n
    ELSE sc.n

\* The i-th call of the script, as [op, key].
ScriptCall(sc, i) ==
    IF sc.kind = "ascending" THEN [op |-> "insert", key |-> i]
    ELSE IF sc.kind = "descending" THEN [op |-> "insert", key |-> sc.n + 1 - i]
    ELSE IF sc.kind = "drain"
    THEN IF i <= sc.n THEN [op |-> "insert", key |-> i]
         ELSE IF i <= 2 * sc.n THEN [op |-> "delete", key |-> 2 * sc.n + 1 - i]
         ELSE [op |-> "none", key |-> 0]
    ELSE IF i <= Len(ExampleInserts) THEN [op |-> "insert", key |-> ExampleInserts[i]]
    ELSE IF i <= ScriptLen(sc)
    THEN [op |-> "delete", key |-> ExampleDeletes[i - Len(ExampleInserts)]]
    ELSE [op |-> "none", key |-> 0]

InitScript ==
    /\ root = RBTree_new.root
    /\ nodes = RBTree_new.nodes
    /\ last = Record("new", NoElem, [t |-> RBTree_new, ret |-> NoElem])
    /\ before = [k \in 1..MaxNodes |-> NoElem]
    /\ present = [k \in 1..MaxNodes |-> NoElem]
    /\ roundtrip = FALSE
    /\ script \in Scripts
    /\ pc = 0
    /\ loop = Idle
    /\ steps = 0

\* The next call of the running test, c, is an insert, or a delete.
ScriptedInsert(c) ==
    /\ pc < ScriptLen(script)
    /\ c.op = "insert"
    /\ Insert(Elem(c.key, c.key))
    /\ pc' = pc + 1
    /\ UNCHANGED <<script, loop, steps>>

ScriptedDelete(c) ==
    /\ pc < ScriptLen(script)
    /\ c.op = "delete"
    /\ Delete(Elem(c.key, c.key))
    /\ pc' = pc + 1
    /\ UNCHANGED <<script, loop, steps>>

NextScript ==
    \/ ScriptedInsert(ScriptCall(script, pc + 1))
    \/ ScriptedDelete(ScriptCall(script, pc + 1))

SpecScript == InitScript /\ [][NextScript]_vars

\* ------------------------------------------------------- the loops, by pass
\* The scripts again, with every call that reaches the loop of balance or of
\* delete_black_leaf followed through it one pass of the loop body at a
\* time.  A call that reaches neither is one step, as above.
RECURSIVE Depth(_, _)
Depth(ns, p) == IF ns[p].parent = NoParent THEN 0 ELSE 1 + Depth(ns, ns[p].parent[1])

Call(c) ==
    IF c.op = "insert" THEN insert(Tree, Elem(c.key, c.key)) ELSE delete(Tree, Elem(c.key, c.key))

\* A call that reaches neither loop.
PlainInsert(c) ==
    /\ pc < ScriptLen(script)
    /\ loop.kind = "idle"
    /\ c.op = "insert"
    /\ Call(c).t.start = <<>>
    /\ Insert(Elem(c.key, c.key))
    /\ pc' = pc + 1
    /\ steps' = steps + 1
    /\ UNCHANGED <<script, loop>>

PlainDelete(c) ==
    /\ pc < ScriptLen(script)
    /\ loop.kind = "idle"
    /\ c.op = "delete"
    /\ Call(c).t.start = <<>>
    /\ Delete(Elem(c.key, c.key))
    /\ pc' = pc + 1
    /\ steps' = steps + 1
    /\ UNCHANGED <<script, loop>>

\* The call runs up to the head of its loop: st = [loop, n, t].
EnterLoop(c, st) ==
    /\ Store(st.t)
    /\ loop' = [kind |-> st.loop, n |-> st.n, start |-> st.n,
                depth |-> Depth(st.t.nodes, st.n), arg |-> Elem(c.key, c.key),
                passes |-> 0, t |-> st.t]
    /\ before' = Snapshot(Tree, DOMAIN before)
    /\ steps' = steps + 1
    /\ UNCHANGED <<last, script, pc>>

\* insert from its entry to the call of balance on the node it has attached.
InsertAttach(c) ==
    /\ pc < ScriptLen(script)
    /\ CanCall
    /\ loop.kind = "idle"
    /\ c.op = "insert"
    /\ Call(c).t.start # <<>>
    /\ EnterLoop(c, Call(c).t.start[1])
    /\ present' = [present EXCEPT ![c.key] = Elem(c.key, c.key)]
    /\ roundtrip' = FALSE

\* delete from its entry to the loop of delete_black_leaf.
DeleteBlackLeaf(c) ==
    /\ pc < ScriptLen(script)
    /\ CanCall
    /\ loop.kind = "idle"
    /\ c.op = "delete"
    /\ Call(c).t.start # <<>>
    /\ EnterLoop(c, Call(c).t.start[1])
    /\ present' = [present EXCEPT ![c.key] = NoElem]
    /\ roundtrip' = (last.op = "insert" /\ last.ret = NoElem /\ last.arg.key = c.key)

\* The loop is left with the tree value t: the rest of the call runs.
LeaveLoop(t) ==
    /\ IF loop.kind = "balance"
       THEN Return("insert", loop.arg, [t |-> t, ret |-> NoElem])
       ELSE Return("delete", loop.arg, detach(t, loop.start))
    /\ loop' = Idle
    /\ pc' = pc + 1
    /\ steps' = steps + 1
    /\ UNCHANGED <<before, present, roundtrip, script>>

\* One pass of the loop body has given x = [t, next].
AfterPass(x) ==
    IF x.next = None \/ x.t.err # ""
    THEN LeaveLoop(x.t)
    ELSE /\ Store(x.t)
         /\ loop' = [loop EXCEPT !.n = x.next, !.passes = @ + 1, !.t = x.t]
         /\ steps' = steps + 1
         /\ UNCHANGED <<last, before, present, roundtrip, script, pc>>

BalancePass ==
    /\ loop.kind = "balance"
    /\ nodes[loop.n].parent # NoParent
    /\ AfterPass(balance_pass(loop.t, loop.n))

DeleteBlackLeafPass ==
    /\ loop.kind = "delete_black_leaf"
    /\ nodes[loop.n].parent # NoParent
    /\ AfterPass(delete_black_leaf_pass(loop.t, loop.n))

\* while let Some(..) = n.parent fails: N is the root.
LoopExit ==
    /\ loop.kind # "idle"
    /\ nodes[loop.n].parent = NoParent
    /\ LeaveLoop(loop.t)

NextLoop ==
    \/ PlainInsert(ScriptCall(script, pc + 1))
    \/ PlainDelete(ScriptCall(script, pc + 1))
    \/ InsertAttach(ScriptCall(script, pc + 1))
    \/ DeleteBlackLeaf(ScriptCall(script, pc + 1))
    \/ BalancePass
    \/ DeleteBlackLeafPass
    \/ LoopExit

\* The program is sequential and nothing suspends it: while it has a step
\* to take, a call of the test to make or a loop to go on with, it takes
\* one.  CanStep is the disjunction of the guards of the actions of NextLoop
\* and every one of them counts a step, so that the fairness of Tick is the
\* weak fairness of NextLoop.
CanStep == loop.kind # "idle" \/ (pc < ScriptLen(script) /\ CanCall)
Tick == CanStep /\ steps' = steps + 1

SpecLoop == InitScript /\ [][NextLoop]_vars /\ WF_steps(Tick)

\* ------------------------------------------------------- rotation alone
\* rotate and rotate2 as functions of their arguments: the tree is any
\* binary search tree of up to RotNodes nodes with consistent back-references
\* and any colouring, the node any node of it and the direction any of the
\* two.  The trees are those rotations make of a right-leaning chain, which
\* are all of them.  Addresses are kept as they are: a rotation allocates
\* and frees nothing.
Chain(n, col) ==
    [i \in 1..n |->
        [color |-> col[i], value |-> Elem(i, i), left |-> None,
         right |-> IF i < n THEN i + 1 ELSE None,
         parent |-> IF i = 1 THEN NoParent ELSE <<i - 1, "Right">>]]

InitRotate ==
    \E n \in 1..RotNodes : \E col \in [1..n -> {"Red", "Black"}] :
        /\ root = 1
        /\ nodes = Chain(n, col)
        /\ last = Record("new", NoElem, [t |-> RBTree_new, ret |-> NoElem])
        /\ before = [k \in 1..n |-> Elem(k, k)]
        /\ present = [k \in 1..n |-> Elem(k, k)]
        /\ roundtrip = FALSE
        /\ script = [kind |-> "rotate", n |-> n]
        /\ pc = 0
        /\ loop = Idle
        /\ steps = 0

\* self.rotate2(node_ptr, &dir)
Rotate(node_ptr, dir) ==
    /\ CanCall
    /\ LET r == rotate2(Tree, node_ptr, dir)
       IN  /\ Store(r)
           /\ last' = Record("rotate", [node |-> node_ptr, dir |-> dir],
                             [t |-> r, ret |-> NoElem])
    /\ UNCHANGED <<before, present, roundtrip, script, pc, loop, steps>>

NextRotate == \E node_ptr \in DOMAIN nodes : \E dir \in {"Left", "Right"} : Rotate(node_ptr, dir)

SpecRotate == InitRotate /\ [][NextRotate]_vars

\* ------------------------------------------------------------------ claims
Reach == Subtree(nodes, root)
Has(log, what) == \E i \in 1..Len(log) : log[i] = what
KeysFound == {k \in DOMAIN before : find(Tree, k) # NoElem}

\* C1: after any sequence of insert and delete calls, no Red node reachable
\* from the root has a Red left or right child.
NoRedRed ==
    \A p \in Reach :
        nodes[p].color = "Red" =>
            /\ colorof(nodes, nodes[p].left) = "Black"
            /\ colorof(nodes, nodes[p].right) = "Black"

\* C1 witness: a delete that rebalanced through a Red far nephew has left a
\* Red node with two Black children behind.
NoRedRedWitness ==
    /\ last.op = "delete"
    /\ Has(last.log, "D6")
    /\ \E p \in Reach :
          /\ nodes[p].color = "Red"
          /\ nodes[p].left # None
          /\ nodes[p].right # None

\* C2: after any sequence of insert and delete calls, every path from a node
\* down to an absent child carries the same number of Black nodes, and the
\* debug assertion of Node::depth (left_depth = right_depth) holds at every
\* node when depth() is called between public calls.
BlackBalanced ==
    /\ \A p \in Reach : Cardinality(BlackCounts(nodes, p)) = 1
    /\ root # None => Node_depth(nodes, root).ok

\* C2 witness: a Black leaf has been deleted by the all-Black step (D2),
\* which recolours the sibling and ascends, and at least two nodes remain.
BlackBalancedWitness ==
    /\ last.op = "delete"
    /\ Has(last.log, "D2")
    /\ Cardinality(Reach) >= 2

\* C3 as stated: after every insert and delete the root, if present, is Black.
RootBlack == root # None => nodes[root].color = "Black"

RootIsRed == root # None /\ nodes[root].color = "Red"

\* C3 amended: the root is Black after the insert into an empty tree, and a
\* call leaves a Red root only if the root was Red before the call or the
\* call is an insert whose fix-up ended by recolouring the root Red as the
\* grandparent of a Red-uncle step; a delete never turns a Black root Red.
RootRedOnlyByRecolour ==
    [][ RootIsRed' =>
          \/ RootIsRed
          \/ /\ last'.op = "insert"
             /\ Len(last'.log) >= 2
             /\ last'.log[Len(last'.log)] = "uncle-red"
             /\ root # None
             /\ nodes'[root'].value = nodes[root].value ]_vars

\* C3 witness: an insert has recoloured the root Red and stopped there.
RootRedWitness ==
    /\ last.op = "insert"
    /\ RootIsRed
    /\ last.log[Len(last.log)] = "uncle-red"

\* C4: after any sequence of insert and delete calls, every node's left
\* subtree holds only smaller keys and its right subtree only greater keys,
\* so the in-order traversal is strictly ascending (no duplicates).
Ordered ==
    /\ \A p \in Reach :
          /\ \A q \in Subtree(nodes, nodes[p].left) : nodes[q].value.key < nodes[p].value.key
          /\ \A q \in Subtree(nodes, nodes[p].right) : nodes[q].value.key > nodes[p].value.key
    /\ LET seq == InOrder(nodes, root)
       IN  \A i \in 1..Len(seq) : \A j \in 1..Len(seq) : i < j => seq[i].key < seq[j].key

\* C4 witness: a node with two children has been deleted through its
\* successor, with a rotation, and at least five keys remain.
OrderedWitness ==
    /\ last.op = "delete"
    /\ Has(last.log, "two-children")
    /\ last.rot >= 1
    /\ Cardinality(Reach) >= 5

\* C5: insert returns None exactly when no element comparing equal was
\* present before the call and otherwise the element stored before; after
\* the call exactly one node holds the key, and it holds the element given.
InsertReturnsPrevious ==
    last.op = "insert" =>
        LET k == last.arg.key
        IN  /\ last.ret = NoElem <=> before[k] = NoElem
            /\ last.ret = before[k]
            /\ Cardinality({p \in DOMAIN nodes : nodes[p].value.key = k}) = 1
            /\ \A p \in DOMAIN nodes : nodes[p].value.key = k => nodes[p].value = last.arg
            /\ Stored(Tree, k) = last.arg

\* C5 witness: a key already stored below the root was inserted again with
\* another payload, and the first payload came back.
InsertReturnsPreviousWitness ==
    /\ last.op = "insert"
    /\ last.ret # NoElem
    /\ last.ret.val # last.arg.val
    /\ root # None
    /\ nodes[root].value.key # last.arg.key

\* C6: delete(k) returns the stored element equal to k exactly when k was
\* present before the call and None otherwise; after a successful delete k
\* is absent and every other key is found as before, with its element.
DeleteReturnsStored ==
    last.op = "delete" =>
        LET k == last.arg.key
        IN  /\ last.ret = before[k]
            /\ last.ret # NoElem =>
                  /\ Stored(Tree, k) = NoElem
                  /\ \A j \in DOMAIN before \ {k} : Stored(Tree, j) = before[j]

\* C6 witness: a node with two children was deleted through a successor
\* that was a Black leaf, and at least four keys remain.
DeleteReturnsStoredWitness ==
    /\ last.op = "delete"
    /\ last.ret # NoElem
    /\ Has(last.log, "two-children")
    /\ Has(last.log, "black-leaf")
    /\ Cardinality(KeysFound) >= 4

\* C7: delete of a key that is not in the tree returns None and changes
\* nothing: root, every node's element, colour, child and parent links stay,
\* no rotation runs and no node is freed.
DeleteAbsentNoEffect ==
    [][ (last'.op = "delete" /\ before'[last'.arg.key] = NoElem) =>
          /\ last'.ret = NoElem
          /\ root' = root
          /\ nodes' = nodes
          /\ last'.rot = 0
          /\ last'.freed = <<>> ]_vars

\* C7 witness: delete of an absent key on a tree of at least three nodes.
DeleteAbsentWitness ==
    /\ last.op = "delete"
    /\ before[last.arg.key] = NoElem
    /\ last.ret = NoElem
    /\ Cardinality(Reach) >= 3

\* C8: insert of a key already present changes only the element stored in
\* the matching node: root, the set of nodes and every node's colour, child
\* and parent links stay, and no rotation runs.
InsertPresentOnlyValue ==
    [][ (last'.op = "insert" /\ before'[last'.arg.key] # NoElem) =>
          /\ root' = root
          /\ DOMAIN nodes' = DOMAIN nodes
          /\ \A p \in DOMAIN nodes :
                /\ nodes'[p].color = nodes[p].color
                /\ nodes'[p].left = nodes[p].left
                /\ nodes'[p].right = nodes[p].right
                /\ nodes'[p].parent = nodes[p].parent
                /\ nodes'[p].value # nodes[p].value => nodes[p].value.key = last'.arg.key
          /\ last'.rot = 0 ]_vars

\* C8 witness: the payload of a node whose parent is Red was replaced, a
\* place where a fix-up started from that node would recolour or rotate.
InsertPresentWitness ==
    /\ last.op = "insert"
    /\ last.ret # NoElem
    /\ last.ret.val # last.arg.val
    /\ \E p \in Reach :
          /\ nodes[p].value.key = last.arg.key
          /\ nodes[p].parent # NoParent
          /\ nodes[nodes[p].parent[1]].color = "Red"

\* C9: after any inserts and deletes, find succeeds for exactly the keys
\* inserted and not deleted since (N - M of them after N inserts of distinct
\* keys and M deletes among them) and returns the element last inserted.
FindMatchesPresent ==
    /\ \A k \in DOMAIN present : find(Tree, k) = present[k]
    /\ Cardinality(KeysFound) = Cardinality({k \in DOMAIN present : present[k] # NoElem})
    /\ Cardinality(KeysFound) = Cardinality(Reach)

\* C9 witness: a delete with rotations has left at least five keys, and at
\* least two keys are absent.
FindMatchesPresentWitness ==
    /\ last.op = "delete"
    /\ last.ret # NoElem
    /\ last.rot >= 2
    /\ Cardinality(KeysFound) >= 5
    /\ Cardinality(Keys \ KeysFound) >= 2

\* C10: insert(k) of an absent key followed at once by delete(k) leaves k
\* not found and every key present before the insert found with its element.
RoundTrip ==
    [][ (/\ last.op = "insert"
         /\ last.ret = NoElem
         /\ last'.op = "delete"
         /\ last'.arg.key = last.arg.key) =>
          /\ find(Tree, last.arg.key)' = NoElem
          /\ \A j \in DOMAIN before \ {last.arg.key} : find(Tree, j)' = before[j] ]_vars

\* C10 witness: the delete of a round trip took the key out of a node with
\* two children, and at least four other keys are still found.
RoundTripWitness ==
    /\ roundtrip
    /\ last.op = "delete"
    /\ last.ret # NoElem
    /\ Has(last.log, "two-children")
    /\ Cardinality(KeysFound) >= 4

\* The number of edges on the longest path from p down to a leaf.
RECURSIVE Height(_, _)
Height(ns, p) ==
    LET l == ns[p].left
        r == ns[p].right
        hl == IF l = None THEN 0 ELSE 1 + Height(ns, l)
        hr == IF r = None THEN 0 ELSE 1 + Height(ns, r)
    IN  IF hl >= hr THEN hl ELSE hr

\* C11: in every tree reachable by insert and delete calls, with n nodes and
\* h the largest number of edges on a path from the root to a leaf,
\* h <= 2*log2(n+1), that is 2^h <= (n+1)^2.
HeightBound ==
    root # None =>
        LET n == Cardinality(Reach)
        IN  2 ^ Height(nodes, root) <= (n + 1) * (n + 1)

\* C11 witness: a delete has left a tree of at most six nodes with a path of
\* three edges, the longest a tree of that size can have.
HeightBoundWitness ==
    /\ last.op = "delete"
    /\ last.ret # NoElem
    /\ root # None
    /\ Cardinality(Reach) <= 6
    /\ Height(nodes, root) = 3

\* C12: no sequence of insert, delete and depth calls triggers an abort: the
\* expect of rotate and of sibling, every unwrap of s, c and d in
\* delete_black_leaf and every debug_assert of balance, delete,
\* delete_black_leaf and Node::depth succeed.
NoAbort ==
    /\ last.err = ""
    /\ ~last.dbg
    /\ root # None => Node_depth(nodes, root).ok

\* C12 witness: a delete of a Black leaf ran the Red-sibling step, then the
\* Red-near-nephew step, then the Red-far-nephew step, passing every
\* debug_assert and unwrap of delete_black_leaf and three expects of rotate.
NoAbortWitness ==
    /\ last.op = "delete"
    /\ Has(last.log, "D3")
    /\ Has(last.log, "D5")
    /\ Has(last.log, "D6")
    /\ last.rot = 3
    /\ last.err = ""

\* C13: for every i in 2..14, after the keys 1 .. 2^i - 1 have been inserted
\* into an empty tree in ascending order, and likewise in descending order,
\* depth() returns exactly i.
DepthOfRun ==
    (script.kind \in {"ascending", "descending"} /\ pc = script.n) =>
        \E i \in 2..LastExp : script.n = 2 ^ i - 1 /\ depth(Tree) = i

\* C13 witness: a descending run of at least 15 keys is complete.
DepthOfRunWitness ==
    /\ script.kind = "descending"
    /\ script.n >= 15
    /\ pc = script.n
    /\ Cardinality(Reach) = script.n
    /\ depth(Tree) >= 4

\* C14: after inserting 1..8 in increasing order into an empty tree the root
\* is Black, the height is at most 4 and key 5 is found; each of the deletes
\* of 6, 8 and 1 that follow returns the deleted key; after them 2, 3, 4, 5
\* and 7 are found, 6, 8 and 1 are not, the root is Black, no Red node has a
\* Red child and every root-to-nil path has the same Black count.
ExampleScenario ==
    script.kind = "example" =>
        /\ pc = Len(ExampleInserts) =>
              /\ RootBlack
              /\ Height(nodes, root) <= 4
              /\ find(Tree, 5) = Elem(5, 5)
        /\ pc > Len(ExampleInserts) => last.op = "delete" /\ last.ret = last.arg
        /\ pc = ScriptLen(script) =>
              /\ \A k \in {2, 3, 4, 5, 7} : find(Tree, k) = Elem(k, k)
              /\ \A k \in {6, 8, 1} : find(Tree, k) = NoElem
              /\ RootBlack
              /\ NoRedRed
              /\ Cardinality(BlackCounts(nodes, root)) = 1

\* C14 witness: the scenario has run to its end: eight inserts and three
\* deletes, five nodes left.
ExampleScenarioWitness ==
    /\ script.kind = "example"
    /\ pc = ScriptLen(script)
    /\ last.op = "delete"
    /\ last.arg.key = ExampleDeletes[Len(ExampleDeletes)]
    /\ Cardinality(Reach) = 5

\* Every child link has its back-reference and every back-reference its
\* child link; the root, and only the root, has no parent.
Consistent(ns, rt) ==
    /\ rt # None => rt \in DOMAIN ns /\ ns[rt].parent = NoParent
    /\ \A q \in DOMAIN ns :
          /\ \A d \in {"Left", "Right"} :
                childof(ns[q], d) # None =>
                    /\ childof(ns[q], d) \in DOMAIN ns
                    /\ ns[childof(ns[q], d)].parent = <<q, d>>
          /\ IF ns[q].parent = NoParent THEN q = rt
             ELSE /\ ns[q].parent[1] \in DOMAIN ns
                  /\ childof(ns[ns[q].parent[1]], ns[q].parent[2]) = q

\* The call made last, when it is a rotation.
RotNode == last'.arg.node
RotDir == last'.arg.dir
RotUp == childof(nodes[RotNode], other(RotDir))
RotInner == IF RotUp = None THEN None ELSE childof(nodes[RotUp], RotDir)
RotParent == nodes[RotNode].parent

\* C15: rotate(node, dir) on a node whose child opposite dir exists puts that
\* child in the node's former position (under the former parent, or as the
\* root when rotate2 ran on the root), makes the node its child on side dir,
\* moves the child's dir-side subtree to the node's opposite slot, leaves
\* all back-references and child slots mutually consistent and keeps the
\* in-order sequence of the whole tree.
RotatePromotes ==
    [][ (last'.op = "rotate" /\ RotUp # None) =>
          /\ last'.err = ""
          /\ nodes'[RotUp].parent = RotParent
          /\ IF RotParent = NoParent THEN root' = RotUp
             ELSE /\ root' = root
                  /\ childof(nodes'[RotParent[1]], RotParent[2]) = RotUp
          /\ childof(nodes'[RotUp], RotDir) = RotNode
          /\ nodes'[RotNode].parent = <<RotUp, RotDir>>
          /\ childof(nodes'[RotNode], other(RotDir)) = RotInner
          /\ RotInner # None => nodes'[RotInner].parent = <<RotNode, other(RotDir)>>
          /\ childof(nodes'[RotNode], RotDir) = childof(nodes[RotNode], RotDir)
          /\ childof(nodes'[RotUp], other(RotDir)) = childof(nodes[RotUp], other(RotDir))
          /\ Consistent(nodes, root) => Consistent(nodes', root')
          /\ InOrder(nodes', root') = InOrder(nodes, root) ]_vars

\* C15 witness: a node below the root was rotated and a non-empty subtree
\* changed hands from the promoted child to it.
RotatePromotesWitness ==
    /\ last.op = "rotate"
    /\ last.err = ""
    /\ Consistent(nodes, root)
    /\ LET n == last.arg.node
       IN  /\ nodes[n].parent[2] = last.arg.dir
           /\ nodes[nodes[n].parent[1]].parent # NoParent
           /\ childof(nodes[n], other(last.arg.dir)) # None

\* C16: rotate and rotate2 change no node's colour and no node's element;
\* they change only child links, back-references and the root slot, and
\* only of the rotated node, the promoted child, the root of the subtree
\* handed over and the former parent.
RotateFrame ==
    [][ last'.op = "rotate" =>
          /\ DOMAIN nodes' = DOMAIN nodes
          /\ \A q \in DOMAIN nodes :
                /\ nodes'[q].color = nodes[q].color
                /\ nodes'[q].value = nodes[q].value
                /\ q \notin {RotNode, RotUp, RotInner, RotParent[1]} => nodes'[q] = nodes[q]
          /\ (RotUp # None /\ RotInner # None) =>
                /\ nodes'[RotInner].left = nodes[RotInner].left
                /\ nodes'[RotInner].right = nodes[RotInner].right
          /\ (RotUp # None /\ RotParent # NoParent) =>
                /\ nodes'[RotParent[1]].parent = nodes[RotParent[1]].parent
                /\ childof(nodes'[RotParent[1]], other(RotParent[2]))
                      = childof(nodes[RotParent[1]], other(RotParent[2]))
          /\ root' # root => RotParent = NoParent ]_vars

\* C16 witness: a Red root was turned under its Black child, which kept its
\* own outer child, a node outside the rotation.
RotateFrameWitness ==
    /\ last.op = "rotate"
    /\ last.err = ""
    /\ nodes[root].color = "Black"
    /\ nodes[last.arg.node].color = "Red"
    /\ nodes[last.arg.node].parent = <<root, last.arg.dir>>
    /\ childof(nodes[root], other(last.arg.dir)) # None

\* C17: rotate(node, dir) on a node whose child opposite dir is absent
\* panics before it modifies any link: the node graph is as it was.
RotateFailsClean ==
    [][ (last'.op = "rotate" /\ RotUp = None) =>
          /\ last'.err # ""
          /\ last'.rot = 0
          /\ nodes' = nodes
          /\ root' = root ]_vars

\* C17 witness: a rotation was asked of a node with a parent and without
\* the child to promote, and it panicked.
RotateFailsCleanWitness ==
    /\ last.op = "rotate"
    /\ last.err # ""
    /\ nodes[last.arg.node].parent # NoParent
    /\ childof(nodes[last.arg.node], other(last.arg.dir)) = None

\* The heap right after the node m = [ptr, node] was hung under its parent.
Attached(ns, m) ==
    SetChild((m.ptr :> m.node) @@ ns, m.node.parent[1], m.node.parent[2], m.ptr)

Ascending(seq) == \A i \in 1..Len(seq) : \A j \in 1..Len(seq) : i < j => seq[i].key < seq[j].key

\* The nodes the call of this step boxed.
MadeByInsert == insert(Tree, last'.arg).t.made
MadeByDelete == delete(Tree, last'.arg).t.made

\* C18: every node is created by an insert of a new key, as a leaf: into an
\* empty tree the node is created Black, becomes the root and no fix-up
\* runs; into a non-empty tree it is created Red in the empty slot the
\* binary-search descent ends at; an insert of a present key, a delete and
\* the rotations either of them runs create no node.
NodeCreation ==
    [][ /\ (last'.op = "insert" /\ Stored(Tree, last'.arg.key) # NoElem) =>
              /\ MadeByInsert = <<>>
              /\ Cardinality(DOMAIN nodes') = Cardinality(DOMAIN nodes)
        /\ (last'.op = "insert" /\ Stored(Tree, last'.arg.key) = NoElem) =>
              /\ Len(MadeByInsert) = 1
              /\ Cardinality(DOMAIN nodes') = Cardinality(DOMAIN nodes) + 1
              /\ \A m \in {MadeByInsert[1]} :
                     /\ m.ptr \notin DOMAIN nodes
                     /\ m.node.value = last'.arg
                     /\ m.node.left = None
                     /\ m.node.right = None
                     /\ IF root = None
                        THEN /\ m.node.color = "Black"
                             /\ m.node.parent = NoParent
                             /\ last'.log = <<"first">>
                             /\ last'.rot = 0
                             /\ nodes' = (root' :> m.node)
                        ELSE /\ m.node.color = "Red"
                             /\ m.node.parent # NoParent
                             /\ m.node.parent[1] \in Reach
                             /\ childof(nodes[m.node.parent[1]], m.node.parent[2]) = None
                             /\ \A ns \in {Attached(nodes, m)} :
                                    Ascending(InOrder(ns, root))
        /\ last'.op = "delete" =>
              /\ MadeByDelete = <<>>
              /\ Cardinality(DOMAIN nodes') <= Cardinality(DOMAIN nodes) ]_vars

\* C18 witness: a new key was inserted below a Red parent and the fix-up
\* rotated twice, so the node created as a leaf now has two children.
NodeCreationWitness ==
    /\ last.op = "insert"
    /\ last.ret = NoElem
    /\ last.rot = 2
    /\ \E p \in Reach :
          /\ nodes[p].value = last.arg
          /\ nodes[p].left # None
          /\ nodes[p].right # None

\* The pass f of balance found N under a Red P under G, on opposite sides,
\* with a Black or absent uncle.
BentCase(f) ==
    /\ f.nodes[f.n].parent = <<f.p, f.node_dir>>
    /\ f.nodes[f.p].parent = <<f.g, f.parent_dir>>
    /\ f.nodes[f.p].color = "Red"
    /\ colorof(f.nodes, childof(f.nodes[f.g], other(f.parent_dir))) = "Black"
    /\ f.node_dir = other(f.parent_dir)

\* What the call r made of the bent case f, when its first rotation is
\* rotate(P, first_dir): N takes P's slot under G with P below it, then
\* rotate(G, side opposite P) puts N in G's place, Black, over P and a Red G,
\* and the loop stops.
BentFixup(r, f, first_dir) ==
    /\ r.err = ""
    /\ r.calls = <<[node |-> f.p, dir |-> first_dir],
                   [node |-> f.g, dir |-> other(f.parent_dir)]>>
    /\ \A mid \in {rotate(f.nodes, f.p, first_dir)} :
          /\ mid.err = ""
          /\ childof(mid.nodes[f.g], f.parent_dir) = f.n
          /\ mid.nodes[f.n].parent = <<f.g, f.parent_dir>>
          /\ mid.nodes[f.p].parent = <<f.n, f.parent_dir>>
    /\ r.nodes[f.n].parent = f.nodes[f.g].parent
    /\ childof(r.nodes[f.n], f.parent_dir) = f.p
    /\ childof(r.nodes[f.n], other(f.parent_dir)) = f.g
    /\ r.nodes[f.n].color = "Black"
    /\ r.nodes[f.p].color = "Red"
    /\ r.nodes[f.g].color = "Red"
    /\ Len(r.fix) = 1
    /\ r.log[Len(r.log)] = "straight"
    /\ r.log[Len(r.log) - 1] = "bent"

\* C19 as stated, with the direction convention of the deletion rebalance
\* (rotating X toward side d is rotate(X, d)): in the bent case P is first
\* rotated toward N's side, rotate(P, N's side).
BentRotatesToward ==
    [][ last'.op = "insert" =>
          \A r \in {insert(Tree, last'.arg).t} :
              Has(r.log, "bent") =>
                  BentCase(r.fix[1]) /\ BentFixup(r, r.fix[1], r.fix[1].node_dir) ]_vars

\* C19 amended: in the bent case P is first rotated away from N's side,
\* rotate(P, P's side under G), which promotes N into P's slot under G with P
\* below it on P's former side, and P := N; then G is rotated toward the side
\* opposite P, rotate(G, other(P's side)), the new P (N) is recoloured Black
\* and G Red, and the loop stops.
BentRotatesAway ==
    [][ last'.op = "insert" =>
          \A r \in {insert(Tree, last'.arg).t} :
              Has(r.log, "bent") =>
                  BentCase(r.fix[1]) /\ BentFixup(r, r.fix[1], r.fix[1].parent_dir) ]_vars

\* C19 witness: an insert went through the bent case below a grandparent
\* that was not the root: the node that was N is Black over two Red
\* children and has a parent.
BentRotatesWitness ==
    /\ last.op = "insert"
    /\ Has(last.log, "bent")
    /\ \E p \in Reach :
          /\ nodes[p].color = "Black"
          /\ nodes[p].parent # NoParent
          /\ nodes[p].left # None /\ nodes[nodes[p].left].color = "Red"
          /\ nodes[p].right # None /\ nodes[nodes[p].right].color = "Red"
          /\ nodes[p].value = last.arg

\* C20: a single insert call performs at most 2 rotations, for every
\* reachable tree and every key.
InsertRotatesTwice == last.op = "insert" => last.rot <= 2

\* C20 witness: an insert that recoloured a Red uncle first, went up two
\* levels and then rotated twice there.
InsertRotatesTwiceWitness ==
    /\ last.op = "insert"
    /\ last.rot = 2
    /\ last.log = <<"attach", "uncle-red", "bent", "straight">>

\* C21: every insert and delete call terminates.  While a call is in the
\* loop of balance or of delete_black_leaf, every pass of the loop body that
\* does not leave the loop moves N strictly closer to the root (balance to
\* the grandparent of N, delete_black_leaf to the parent of N), the passes
\* made never exceed the depth of the node the loop started from, every
\* loop is left in the end and every call of every test returns.
PassAscends ==
    (loop.kind # "idle" /\ loop'.kind # "idle") =>
        /\ nodes[loop.n].parent # NoParent
        /\ loop'.passes = loop.passes + 1
        /\ loop'.n = IF loop.kind = "balance"
                     THEN nodes[nodes[loop.n].parent[1]].parent[1]
                     ELSE nodes[loop.n].parent[1]
        /\ Depth(nodes', loop'.n) < Depth(nodes, loop.n)

PassesBounded ==
    loop.kind # "idle" =>
        /\ loop.passes + Depth(nodes, loop.n) <= loop.depth
        /\ nodes[loop.n].parent # NoParent => loop.passes + 1 <= loop.depth

CallsTerminate ==
    /\ [][PassAscends]_vars
    /\ []PassesBounded
    /\ (loop.kind # "idle") ~> (loop.kind = "idle")
    /\ <>(pc = ScriptLen(script))

CallsTerminateWitness ==
    /\ loop.kind = "delete_black_leaf"
    /\ loop.passes >= 2
    /\ nodes[loop.n].parent # NoParent

\* C22: delete(k) on a node x with two children.  The in-order successor,
\* the node with the least key of x's right subtree, has no left child; it
\* is the one node the call frees; the call returns the element x held; and
\* x stays in the tree, holding the element the successor held.
TwoChildrenTarget == find_node(nodes, root, last'.arg)
TwoChildrenSucc ==
    CHOOSE s \in Subtree(nodes, nodes[TwoChildrenTarget].right) :
        \A q \in Subtree(nodes, nodes[TwoChildrenTarget].right) :
            nodes[s].value.key <= nodes[q].value.key

DeleteSwapsSuccessor ==
    [][ (/\ last'.op = "delete"
         /\ TwoChildrenTarget # None
         /\ nodes[TwoChildrenTarget].left # None
         /\ nodes[TwoChildrenTarget].right # None) =>
            \A r \in {delete(Tree, last'.arg)} :
                /\ r.t.err = "" /\ ~r.t.dbg
                /\ nodes[TwoChildrenSucc].left = None
                /\ successor(nodes, TwoChildrenTarget) = TwoChildrenSucc
                /\ r.t.freed = <<TwoChildrenSucc>>
                /\ TwoChildrenSucc \notin DOMAIN r.t.nodes
                /\ r.ret = nodes[TwoChildrenTarget].value
                /\ last'.ret = r.ret
                /\ TwoChildrenTarget \in Subtree(r.t.nodes, r.t.root)
                /\ r.t.nodes[TwoChildrenTarget].value = nodes[TwoChildrenSucc].value
                /\ InOrder(nodes', root') =
                       SelectSeq(InOrder(nodes, root), LAMBDA e : e.key # last'.arg.key) ]_vars

\* A delete of a key with two children whose successor is a Black leaf.
DeleteSwapsSuccessorWitness ==
    /\ last.op = "delete"
    /\ Has(last.log, "two-children")
    /\ Has(last.log, "black-leaf")
    /\ last.rot > 0
    /\ last.ret = last.arg

\* C23: the node delete removes, when it has exactly one child.  The node is
\* the one found or, when that has two children, its successor.  It is Black
\* and its child Red; the call frees it, puts the child into its place under
\* its parent (or at the root) and paints the child Black; it rotates
\* nothing and changes no other node, so every path keeps its Black count.
Removed ==
    LET x == find_node(nodes, root, last'.arg)
    IN  IF x = None THEN None
        ELSE IF nodes[x].left # None /\ nodes[x].right # None
        THEN CHOOSE s \in Subtree(nodes, nodes[x].right) :
                 \A q \in Subtree(nodes, nodes[x].right) :
                     nodes[s].value.key <= nodes[q].value.key
        ELSE x

OnlyChild(m) == IF nodes[m].left # None THEN nodes[m].left ELSE nodes[m].right

OneChild(m) == m # None /\ (nodes[m].left = None) # (nodes[m].right = None)

Spliced(r, m, c) ==
    /\ r.err = "" /\ ~r.dbg
    /\ nodes[m].color = "Black"
    /\ nodes[c].color = "Red"
    /\ r.freed = <<m>>
    /\ DOMAIN r.nodes = DOMAIN nodes \ {m}
    /\ r.rot = 0
    /\ r.nodes[c] = [nodes[c] EXCEPT !.color = "Black", !.parent = nodes[m].parent]
    /\ IF nodes[m].parent = NoParent
       THEN r.root = c
       ELSE r.root = root
            /\ childof(r.nodes[nodes[m].parent[1]], nodes[m].parent[2]) = c
    /\ \A q \in DOMAIN r.nodes \ {c} :
           /\ r.nodes[q].color = nodes[q].color
           /\ r.nodes[q].parent = nodes[q].parent
           /\ \A d \in {"Left", "Right"} :
                  <<q, d>> # nodes[m].parent => childof(r.nodes[q], d) = childof(nodes[q], d)
    /\ BlackCounts(r.nodes, r.root) = BlackCounts(nodes, root)

OneChildSplice ==
    [][ (last'.op = "delete" /\ OneChild(Removed)) =>
            \A r \in {delete(Tree, last'.arg).t} : Spliced(r, Removed, OnlyChild(Removed)) ]_vars

\* The successor of a node with two children has a right child and is removed.
OneChildSpliceWitness ==
    /\ last.op = "delete"
    /\ Has(last.log, "two-children")
    /\ Has(last.log, "succ-right-child")
    /\ last.ret = last.arg
    /\ last.rot = 0

\* C24: a pass of the loop of delete_black_leaf that finds the sibling S of
\* N Red.  C and D are nodes and Black and P is Black; rotate2(P, dir) is
\* called, dir the side of N, which puts P under S on that side; P becomes
\* Red and S Black; the sibling of N is then the former C, and the locals
\* are that sibling and its children.  The rest of the pass works on the
\* same N and P (it rotates only the new sibling away from N, or P toward N)
\* and the pass leaves the loop: it never takes the all-Black case.
After(seq, from) == SubSeq(seq, from + 1, Len(seq))

RedSiblingPass(t, n, p, dir, s, c, d) ==
    /\ c # None /\ t.nodes[c].color = "Black"
    /\ d # None /\ t.nodes[d].color = "Black"
    /\ t.nodes[p].color = "Black"
    /\ \A x \in {SRed(t, p, dir, s, c, d)} :
           /\ x.t.err = "" /\ ~x.t.dbg
           /\ x.t.calls = Append(t.calls, [node |-> p, dir |-> dir])
           /\ x.t.nodes[p].parent = <<s, dir>>
           /\ x.t.nodes[s].parent = t.nodes[p].parent
           /\ x.t.nodes[n].parent = <<p, dir>>
           /\ x.t.nodes[p].color = "Red"
           /\ x.t.nodes[s].color = "Black"
           /\ x.s = c
           /\ sibling(x.t.nodes, n) = <<x.s, x.c, x.d>>
           /\ \A y \in {delete_black_leaf_pass(t, n)} :
                  /\ y.next = None
                  /\ y.t.err = "" /\ ~y.t.dbg
                  /\ After(y.t.log, Len(t.log)) \in
                         {<<"D3", "D4">>, <<"D3", "D6">>, <<"D3", "D5", "D6">>}
                  /\ After(y.t.calls, Len(x.t.calls)) \in
                         {<<>>, <<[node |-> p, dir |-> dir]>>,
                          <<[node |-> c, dir |-> other(dir)], [node |-> p, dir |-> dir]>>}
                  /\ y.t.nodes[n].parent[1] = p

\* Every pass of the loop entered with N = n on the tree value t.
RECURSIVE RedSiblingPasses(_, _)
RedSiblingPasses(t, n) ==
    t.nodes[n].parent = NoParent \/
        /\ \A scd \in {sibling(t.nodes, n)} :
               colorof(t.nodes, scd[1]) = "Red" =>
                   RedSiblingPass(t, n, t.nodes[n].parent[1], t.nodes[n].parent[2],
                                  scd[1], scd[2], scd[3])
        /\ \A y \in {delete_black_leaf_pass(t, n)} :
               y.next = None \/ y.t.err # "" \/ RedSiblingPasses(y.t, y.next)

RedSiblingStep ==
    [][ last'.op = "delete" =>
            \A r \in {delete(Tree, last'.arg).t} :
                r.start # <<>> => RedSiblingPasses(r.start[1].t, r.start[1].n) ]_vars

\* A delete whose loop finds S Red and then leaves by the Red-parent case.
RedSiblingStepWitness ==
    /\ last.op = "delete"
    /\ Has(last.log, "D3")
    /\ Has(last.log, "D4")
    /\ last.rot = 1
    /\ last.err = ""

\* C25: nodes are freed by delete alone: an insert frees none, a delete that
\* returns an element frees exactly one node, which was allocated, and a
\* delete that returns nothing frees none.  When the node is freed (the call
\* returns right after) it is not the root and no remaining node has it as
\* left child, right child or parent.
Unlinked(r, f) ==
    /\ f \in DOMAIN nodes
    /\ f \notin DOMAIN r.nodes
    /\ r.root # f
    /\ \A q \in DOMAIN r.nodes :
           r.nodes[q].left # f /\ r.nodes[q].right # f /\ r.nodes[q].parent[1] # f

FreedUnlinked ==
    [][ /\ last'.op = "insert" => insert(Tree, last'.arg).t.freed = <<>>
        /\ last'.op = "delete" =>
               \A r \in {delete(Tree, last'.arg)} :
                   /\ (r.ret # NoElem) = (Stored(Tree, last'.arg.key) # NoElem)
                   /\ Len(r.t.freed) = IF r.ret # NoElem THEN 1 ELSE 0
                   /\ \A i \in 1..Len(r.t.freed) : Unlinked(r.t, r.t.freed[i]) ]_vars

\* A node with one child has been freed, its child now in its place.
FreedUnlinkedWitness ==
    /\ last.op = "delete"
    /\ Len(last.freed) = 1
    /\ Has(last.log, "left-child") \/ Has(last.log, "right-child")
    /\ root # None

\* The glossary's black-height of node p, over every path from p to a
\* descendant nil: the Black nodes on the path, p itself left out and the
\* nil counted as one.
PathBlacks(ns, p) ==
    {n + 1 : n \in BlackCounts(ns, ns[p].left) \cup BlackCounts(ns, ns[p].right)}

\* C26 as stated: depth() is the black-height of the root, the root itself
\* not counted.
DepthIsBlackHeight == root # None => PathBlacks(nodes, root) = {depth(Tree)}

\* C26, amended: depth() counts the Black nodes on every path from the root
\* to a descendant nil with the nil as one and the root included: it is the
\* black-height of the root plus one when the root is Black, the
\* black-height itself when the root is Red, and 0 for the empty tree; no
\* debug_assert_eq of the computation fails.
DepthCountsRoot ==
    IF root = None THEN depth(Tree) = 0
    ELSE /\ Node_depth(nodes, root).ok
         /\ PathBlacks(nodes, root) =
                {depth(Tree) - (IF nodes[root].color = "Black" THEN 1 ELSE 0)}

DepthCountsRootWitness ==
    /\ root # None
    /\ nodes[root].color = "Black"
    /\ depth(Tree) = 3
    /\ PathBlacks(nodes, root) = {2}
    /\ \E p \in Reach : nodes[p].color = "Red"

\* C27: after every insert and every delete the links agree.  The root has
\* no parent; a node that is the left (right) child of x has parent
\* (x, Left) ((x, Right)); a node with parent (p, d) is the child of p on
\* side d, and a node without parent is the root.  Checked on the heap as
\* the call leaves it and on the tree the next call finds.
LinksConsistent ==
    [][ /\ \A r \in {IF last'.op = "insert" THEN insert(Tree, last'.arg).t
                     ELSE delete(Tree, last'.arg).t} :
               r.err = "" /\ Consistent(r.nodes, r.root)
        /\ Consistent(nodes', root') ]_vars

\* The links after a delete that has rotated twice around the removed leaf.
LinksConsistentWitness ==
    /\ last.op = "delete"
    /\ last.rot >= 2
    /\ Cardinality(DOMAIN nodes) >= 5
    /\ Consistent(nodes, root)
    /\ \E p \in DOMAIN nodes : nodes[p].parent # NoParent /\ nodes[nodes[p].parent[1]].parent # NoParent

\* C28: the live nodes are the nodes of the tree, one per key present.  The
\* heap a call leaves holds exactly the nodes reachable from the root by
\* child links; they are as many as the keys the calls so far have left
\* present, and hold distinct keys.  An insert of a new key boxes one node
\* and frees none, a delete of a present key frees one and boxes none, an
\* insert of a present key and a delete of an absent one do neither; with
\* no key left the root is None and the heap empty.
KeysPresent == {k \in DOMAIN present : present[k] # NoElem}

Accounted(r, made_n, freed_n) ==
    /\ r.err = ""
    /\ Len(r.made) = made_n
    /\ Len(r.freed) = freed_n
    /\ \A i \in 1..Len(r.made) : r.made[i].ptr \notin DOMAIN nodes
    /\ \A i \in 1..Len(r.freed) : r.freed[i] \in DOMAIN nodes
    /\ DOMAIN r.nodes = (DOMAIN nodes \cup {r.made[i].ptr : i \in 1..Len(r.made)})
                            \ {r.freed[i] : i \in 1..Len(r.freed)}
    /\ DOMAIN r.nodes = Subtree(r.nodes, r.root)

NodesAreKeys ==
    [][ /\ last'.op = "insert" =>
               \A r \in {insert(Tree, last'.arg).t} :
                   IF last'.arg.key \in KeysPresent
                   THEN Accounted(r, 0, 0) ELSE Accounted(r, 1, 0)
        /\ last'.op = "delete" =>
               \A r \in {delete(Tree, last'.arg).t} :
                   IF last'.arg.key \in KeysPresent
                   THEN Accounted(r, 0, 1) ELSE Accounted(r, 0, 0)
        /\ DOMAIN nodes' = Subtree(nodes', root')
        /\ Cardinality(DOMAIN nodes') = Cardinality(KeysPresent')
        /\ {nodes'[p].value.key : p \in DOMAIN nodes'} = KeysPresent'
        /\ KeysPresent' = {} => root' = None /\ DOMAIN nodes' = {} ]_vars

\* The last of several keys has been deleted: the tree is empty again.
NodesAreKeysWitness ==
    /\ last.op = "delete"
    /\ last.ret # NoElem
    /\ KeysPresent = {}
    /\ root = None
    /\ Cardinality({k \in DOMAIN before : before[k] # NoElem}) = 1

\* C29: a delete rotates at most three times: once at most in the
\* Red-sibling case (D3), once at most in the Red-near-nephew case (D5),
\* once at most in the Red-far-nephew case (D6), and nowhere else, so not
\* in the all-Black case (D2) that moves N up.
Count(log, what) == Cardinality({i \in 1..Len(log) : log[i] = what})

DeleteRotatesThrice ==
    last.op = "delete" =>
        /\ last.rot <= 3
        /\ Count(last.log, "D3") <= 1
        /\ Count(last.log, "D5") <= 1
        /\ Count(last.log, "D6") <= 1
        /\ last.rot = Count(last.log, "D3") + Count(last.log, "D5") + Count(last.log, "D6")

\* The key had two children and its successor, a Black leaf, took all three.
DeleteRotatesThriceWitness ==
    /\ last.op = "delete"
    /\ last.log = <<"two-children", "black-leaf", "D3", "D5", "D6">>
    /\ last.rot = 3
    /\ ~last.dbg

\* C30: the node delete_black_leaf is to remove, from the entry of the
\* function to the end of its loop.  On entry, after every rotation and when
\* the loop is left (recolouring changes no link) it has no child and is the
\* child of the node its parent field names, on the side the field names.
\* The replace_child(delete_node, None) that follows empties that one slot:
\* the node is freed, every other node is still reachable from the root and
\* none but the parent has changed.
StaysLeaf(h, dn) ==
    /\ h[dn].left = None
    /\ h[dn].right = None
    /\ h[dn].parent # NoParent
    /\ childof(h[h[dn].parent[1]], h[dn].parent[2]) = dn

DetachedAlone(lp, r, dn) ==
    /\ r.err = ""
    /\ r.freed = <<dn>>
    /\ r.root = lp.root
    /\ Subtree(r.nodes, r.root) = Subtree(lp.nodes, lp.root) \ {dn}
    /\ DOMAIN r.nodes = DOMAIN lp.nodes \ {dn}
    /\ \A q \in DOMAIN r.nodes :
           r.nodes[q] = IF q # lp.nodes[dn].parent[1] THEN lp.nodes[q]
                        ELSE IF lp.nodes[dn].parent[2] = "Left"
                        THEN [lp.nodes[q] EXCEPT !.left = None]
                        ELSE [lp.nodes[q] EXCEPT !.right = None]

RemovedThroughLoop(st, r) ==
    \A lp \in {delete_black_leaf_loop(st.t, st.n)} :
        /\ lp.err = ""
        /\ StaysLeaf(st.t.nodes, st.n)
        /\ \A i \in 1..Len(lp.after) : StaysLeaf(lp.after[i], st.n)
        /\ StaysLeaf(lp.nodes, st.n)
        /\ DetachedAlone(lp, r, st.n)

RemovedStaysLeaf ==
    [][ last'.op = "delete" =>
            \A r \in {delete(Tree, last'.arg).t} :
                r.start # <<>> => RemovedThroughLoop(r.start[1], r) ]_vars

\* A Black leaf has been removed after rotations around it.
RemovedStaysLeafWitness ==
    /\ last.op = "delete"
    /\ last.log = <<"black-leaf", "D5", "D6">>
    /\ last.rot = 2
    /\ last.err = ""
    /\ last.ret = last.arg

====
